---- MODULE Spec2Model ----
(***************************************************************************)
(* Model of the journaling application's two hooks:                        *)
(*   useMediaUpload (src/src/hooks/useMediaUpload.ts)                      *)
(*   useEntries     (src/src/components/AppSidebar.tsx, lines 118-503)     *)
(* Remote calls (table, storage) are atomic at the remote side; each has   *)
(* an outcome "ok", "error" (error result) or "throw" (raised fault).      *)
(* The code between two awaits runs as one step.                           *)
(***************************************************************************)
EXTENDS Integers, Sequences, FiniteSets, TLC

(***************************************************************************)
(* Bounds                                                                  *)
(***************************************************************************)
MaxFiles == 2        \* longest uploadFiles batch
MaxBatches == 2      \* uploadFiles calls on one uploader instance
MaxTokens == 2       \* distinct timestamp-random tokens of a storage path
MaxDeletes == 1      \* deleteMedia calls
MaxActs == 2         \* caller actions on one store instance plus changes
                     \* made to the entries table by other devices
MaxInFlight == 2     \* remote calls of one store instance awaiting a response

NoUser == "none"
Users == {"A", "B"}
NoEntry == 0
Outcomes == {"ok", "error", "throw"}
NoPath == <<>>
NoError == ""

Batches == 1..MaxBatches
Tokens == 1..MaxTokens

(***************************************************************************)
(* Files.  A file name is a sequence of characters so that the extension   *)
(* is computed as the code computes it.                                    *)
(***************************************************************************)
MB == 1024 * 1024

SUPPORTED_FILE_TYPES ==
  << [mimeTypes |-> {"image/jpeg", "image/png", "image/gif", "image/webp"},
      maxSize |-> 10 * MB],
     [mimeTypes |-> {"audio/mpeg", "audio/wav", "audio/ogg", "audio/mp4"},
      maxSize |-> 50 * MB],
     [mimeTypes |-> {"video/mp4", "video/webm", "video/ogg"},
      maxSize |-> 100 * MB],
     [mimeTypes |-> {"application/pdf", "text/plain", "application/zip"},
      maxSize |-> 25 * MB] >>

FileSet ==
  { [name |-> <<"a", ".", "p">>, type |-> "image/png", size |-> 10 * MB],
    [name |-> <<"c", ".", "x">>, type |-> "application/x-msdownload", size |-> 1] }

FileSeqs == UNION { [1..n -> FileSet] : n \in 1..MaxFiles }

\* validateFile rejecting a file whose size is the ceiling (>= for >).
validateFileBelowCeiling(file) ==
  LET allSupportedTypes ==
        UNION { SUPPORTED_FILE_TYPES[c].mimeTypes : c \in DOMAIN SUPPORTED_FILE_TYPES }
      holders == { c \in DOMAIN SUPPORTED_FILE_TYPES :
                     file.type \in SUPPORTED_FILE_TYPES[c].mimeTypes }
      first == CHOOSE c \in holders : \A d \in holders : c <= d
  IN  IF file.type \notin allSupportedTypes
      THEN [isValid |-> FALSE, error |-> "File type is not supported"]
      ELSE IF holders # {} /\ file.size >= SUPPORTED_FILE_TYPES[first].maxSize
      THEN [isValid |-> FALSE, error |-> "File size exceeds limit"]
      ELSE [isValid |-> TRUE, error |-> NoError]

\* validateFile: the type must be in the table, the size at most the ceiling
\* of the first category holding the type.
validateFile(file) ==
  LET allSupportedTypes ==
        UNION { SUPPORTED_FILE_TYPES[c].mimeTypes : c \in DOMAIN SUPPORTED_FILE_TYPES }
      holders == { c \in DOMAIN SUPPORTED_FILE_TYPES :
                     file.type \in SUPPORTED_FILE_TYPES[c].mimeTypes }
      first == CHOOSE c \in holders : \A d \in holders : c <= d
  IN  IF file.type \notin allSupportedTypes
      THEN [isValid |-> FALSE, error |-> "File type is not supported"]
      ELSE IF holders # {} /\ file.size > SUPPORTED_FILE_TYPES[first].maxSize
      THEN [isValid |-> FALSE, error |-> "File size exceeds limit"]
      ELSE [isValid |-> TRUE, error |-> NoError]

\* fileName.lastIndexOf('.'): 0 here stands for JavaScript's -1.
RECURSIVE lastIndexOfDot(_, _)
lastIndexOfDot(name, i) ==
  IF i = 0 THEN 0
  ELSE IF name[i] = "." THEN i
  ELSE lastIndexOfDot(name, i - 1)

\* fileName.substring(lastIndexOf('.')): substring(-1) is the whole name.
Extension(name) ==
  LET d == lastIndexOfDot(name, Len(name))
  IN  IF d = 0 THEN name ELSE SubSeq(name, d, Len(name))

\* generateStoragePath: tok stands for `${timestamp}-${randomId}`.
generateStoragePath(fileName, userId, tok) ==
  <<userId, tok, Extension(fileName)>>

\* updateProgress: replace every entry of that file name, else append.
updateProgress(prev, fileName, progress, isComplete, error) ==
  LET entry == [fileName |-> fileName, progress |-> progress,
                isComplete |-> isComplete, error |-> error]
  IN  IF \E k \in DOMAIN prev : prev[k].fileName = fileName
      THEN [k \in DOMAIN prev |->
              IF prev[k].fileName = fileName THEN entry ELSE prev[k]]
      ELSE Append(prev, entry)

(***************************************************************************)
(* State                                                                   *)
(***************************************************************************)
VARIABLES
  user,            \* useAuth().user: the authenticated user, or NoUser
  blobs,           \* object storage, bucket 'media': the paths holding a blob
  media,           \* remote table 'media': set of MediaRecords
  nextMediaId,     \* id the remote table gives the next inserted record
  uploading,       \* useState uploading
  uploadProgress,  \* useState uploadProgress
  timers,          \* batches whose 3 s clearing timer is pending
  batch,           \* the uploadFiles calls of the uploader instance
  del,             \* the deleteMedia call of the uploader instance
  delCount         \* deleteMedia calls made so far

VARIABLES
  entriesTable,    \* remote table 'entries': set of rows
  nextEntryId,     \* id the remote table gives the next inserted row
  channels,        \* open change subscriptions, each with the closure of
                   \* the render that opened it and its undelivered
                   \* notifications
  mounted,         \* the store instance (useEntries) is mounted
  limit,           \* hook parameter limit of the latest render
  searchQuery,     \* hook parameter searchQuery of the latest render
  entries,         \* useState entries
  loading,         \* useState loading
  error,           \* useState error
  fetches,         \* list queries of loadEntries awaiting their response
  nextFetchId,     \* issue number of the next list query
  ops,             \* createEntry/updateEntry/deleteEntry calls awaiting
                   \* their response
  rets,            \* history: the returned calls, in return order
  callerActs,      \* history: number of caller actions so far
  remoteActs,      \* history: number of changes made by other devices
  fetchFailed      \* history: some list query failed

uploaderVars == <<blobs, media, nextMediaId, uploading, uploadProgress,
                  timers, batch, del, delCount>>

storeVars == <<entriesTable, nextEntryId, channels, mounted, limit,
               searchQuery, entries, loading, error, fetches, nextFetchId,
               ops, rets, callerActs, remoteActs, fetchFailed>>

VARIABLES
  failedFetches,   \* history: number of list queries that failed
  created,         \* history: the latest createEntry call whose remote insert
                   \* succeeded: its form data, the id of its row and the
                   \* table right after the insert
  queried,         \* history: the latest searchEntries or getEntriesByDate
                   \* call with the value it returned
  tzOffset,        \* the caller's time zone: local time minus UTC, in ms
  validated,       \* history: the latest validateFile call with its result
  editor           \* the EntryEditor component: its dialog, its form state
                   \* and the position of its handleSave call

callVars == <<failedFetches, created, queried, tzOffset, validated, editor>>

vars == <<user, uploaderVars, storeVars, callVars>>

NoLog == [valid |-> "none", path |-> NoPath, upload |-> "none",
          insert |-> "none", remove |-> "none"]

IdleBatch == [pc |-> "idle", user |-> NoUser, files |-> <<>>, entryId |-> NoEntry,
              idx |-> 0, path |-> NoPath, uploadedMedia |-> <<>>, log |-> <<>>]

IdleDel == [pc |-> "idle", user |-> NoUser, mediaId |-> 0, path |-> NoPath,
            result |-> "none", removed |-> "none"]

InitUploader ==
  /\ blobs = {}
  /\ media = {}
  /\ nextMediaId = 1
  /\ uploading = FALSE
  /\ uploadProgress = <<>>
  /\ timers = {}
  /\ batch = [b \in Batches |-> IdleBatch]
  /\ del = IdleDel
  /\ delCount = 0

(***************************************************************************)
(* uploadFiles                                                             *)
(***************************************************************************)
\* The loop of uploadFiles from file i up to its next await: files that fail
\* validation get a terminal progress entry and are skipped; the first valid
\* file gets its 0% and 50% marks and its upload is issued.
RECURSIVE SkipInvalid(_, _, _, _)
SkipInvalid(files, i, prog, log) ==
  IF i > Len(files) THEN [idx |-> i, prog |-> prog, log |-> log]
  ELSE LET validation == validateFile(files[i])
       IN  IF ~validation.isValid
           THEN SkipInvalid(files, i + 1,
                            updateProgress(prog, files[i].name, 0, TRUE, validation.error),
                            [log EXCEPT ![i] = [NoLog EXCEPT !.valid = "no"]])
           ELSE [idx |-> i,
                 prog |-> updateProgress(
                            updateProgress(prog, files[i].name, 0, FALSE, NoError),
                            files[i].name, 50, FALSE, NoError),
                 log |-> [log EXCEPT ![i] = [NoLog EXCEPT !.valid = "yes"]]]

\* Continue batch b (record rec) with file i: run to the next await, or to
\* the end of the loop, the finally block and the return.  setUploading(true)
\* runs once, before the first file.
Resume(b, rec, i, prog, tok) ==
  LET s == SkipInvalid(rec.files, i, prog, rec.log)
  IN  IF s.idx > Len(rec.files)
      THEN /\ batch' = [batch EXCEPT ![b] =
                          [rec EXCEPT !.pc = "done", !.idx = s.idx,
                                      !.log = s.log, !.path = NoPath]]
           /\ uploadProgress' = s.prog
           /\ uploading' = FALSE
           /\ timers' = timers \cup {b}
      ELSE LET p == generateStoragePath(rec.files[s.idx].name, rec.user, tok)
           IN  /\ batch' = [batch EXCEPT ![b] =
                              [rec EXCEPT !.pc = "awaitUpload", !.idx = s.idx,
                                          !.path = p,
                                          !.log = [s.log EXCEPT ![s.idx].path = p]]]
               /\ uploadProgress' = s.prog
               /\ uploading' = (IF i = 1 THEN TRUE ELSE uploading)
               /\ UNCHANGED timers

\* uploadFiles without the check of the user.
UploadFilesUnchecked(b, files, entryId) ==
  /\ batch[b].pc = "idle"
  /\ \A c \in Batches : c < b => batch[c].pc # "idle"
  /\ \E tok \in Tokens :
       Resume(b, [IdleBatch EXCEPT !.user = user, !.files = files,
                                   !.entryId = entryId,
                                   !.log = [k \in 1..Len(files) |-> NoLog]],
              1, <<>>, tok)
  /\ UNCHANGED <<failedFetches, created, queried, tzOffset, validated, storeVars,
                 user, blobs, media, nextMediaId, del, delCount>>

\* uploadFiles(files, entryId) up to its first await.
UploadFiles(b, files, entryId) ==
  /\ batch[b].pc = "idle"
  /\ \A c \in Batches : c < b => batch[c].pc # "idle"
  /\ IF user = NoUser
     THEN /\ batch' = [batch EXCEPT ![b] =
                         [IdleBatch EXCEPT !.pc = "done", !.files = files,
                                           !.entryId = entryId]]
          /\ UNCHANGED <<uploading, uploadProgress, timers>>
     ELSE \E tok \in Tokens :
            Resume(b, [IdleBatch EXCEPT !.user = user, !.files = files,
                                        !.entryId = entryId,
                                        !.log = [k \in 1..Len(files) |-> NoLog]],
                   1, <<>>, tok)
  /\ UNCHANGED <<failedFetches, created, queried, tzOffset, validated, storeVars,
                 user, blobs, media, nextMediaId, del, delCount>>

\* A catch block around the whole loop: a raised fault ends the batch.
CatchFileEndsBatch(b, rec, tok) ==
  Resume(b, rec, Len(rec.files) + 1,
         updateProgress(uploadProgress, rec.files[rec.idx].name, 0, TRUE,
                        "Unexpected error occurred"),
         tok)

\* The catch block of one file, then the next file.
CatchFile(b, rec, tok) ==
  Resume(b, rec, rec.idx + 1,
         updateProgress(uploadProgress, rec.files[rec.idx].name, 0, TRUE,
                        "Unexpected error occurred"),
         tok)

\* uploadFiles going on to the record insert whatever the blob write
\* answered (uploadError not looked at).
UploadResponseIgnoresError(b, outcome) ==
  LET rec == batch[b]
      logged == [rec EXCEPT !.log[rec.idx].upload = outcome]
  IN  /\ rec.pc = "awaitUpload"
      /\ outcome = "ok" => rec.path \notin blobs
      /\ \E tok \in Tokens :
           CASE outcome \in {"ok", "error"} ->
                  /\ blobs' = IF outcome = "ok" THEN blobs \cup {rec.path} ELSE blobs
                  /\ batch' = [batch EXCEPT ![b] = [logged EXCEPT !.pc = "awaitInsert"]]
                  /\ UNCHANGED <<uploading, uploadProgress, timers>>
             [] outcome = "throw" ->
                  /\ UNCHANGED blobs
                  /\ CatchFile(b, logged, tok)
      /\ UNCHANGED <<callVars, storeVars, user, media, nextMediaId, del, delCount>>

\* storage.upload(storagePath, file, {upsert: false}) completes.
UploadResponse(b, outcome) ==
  LET rec == batch[b]
      file == rec.files[rec.idx]
      logged == [rec EXCEPT !.log[rec.idx].upload = outcome]
  IN  /\ rec.pc = "awaitUpload"
      /\ outcome = "ok" => rec.path \notin blobs
      /\ \E tok \in Tokens :
           CASE outcome = "ok" ->
                  \* the insert into 'media' is issued
                  /\ blobs' = blobs \cup {rec.path}
                  /\ batch' = [batch EXCEPT ![b] = [logged EXCEPT !.pc = "awaitInsert"]]
                  /\ UNCHANGED <<uploading, uploadProgress, timers>>
             [] outcome = "error" ->
                  /\ UNCHANGED blobs
                  /\ Resume(b, logged, rec.idx + 1,
                            updateProgress(uploadProgress, file.name, 0, TRUE,
                                           "upload error"),
                            tok)
             [] outcome = "throw" ->
                  /\ UNCHANGED blobs
                  /\ CatchFile(b, logged, tok)
      /\ UNCHANGED <<callVars, storeVars, user, media, nextMediaId, del, delCount>>

\* from('media').insert(mediaData).select().single() completes.
InsertResponse(b, outcome) ==
  LET rec == batch[b]
      file == rec.files[rec.idx]
      logged == [rec EXCEPT !.log[rec.idx].insert = outcome]
      mediaRecord == [id |-> nextMediaId, user_id |-> rec.user,
                      entry_id |-> rec.entryId, storage_path |-> rec.path,
                      file_name |-> file.name, file_size |-> file.size,
                      mime_type |-> file.type]
  IN  /\ rec.pc = "awaitInsert"
      /\ \E tok \in Tokens :
           CASE outcome = "ok" ->
                  /\ media' = media \cup {mediaRecord}
                  /\ nextMediaId' = nextMediaId + 1
                  /\ Resume(b, [logged EXCEPT !.uploadedMedia =
                                   Append(rec.uploadedMedia, mediaRecord)],
                            rec.idx + 1,
                            updateProgress(uploadProgress, file.name, 100, TRUE, NoError),
                            tok)
             [] outcome = "error" ->
                  \* the compensating storage.remove([data.path]) is issued
                  /\ batch' = [batch EXCEPT ![b] = [logged EXCEPT !.pc = "awaitRemove"]]
                  /\ uploadProgress' = updateProgress(uploadProgress, file.name, 100, TRUE,
                                                      "Failed to save file record")
                  /\ UNCHANGED <<media, nextMediaId, uploading, timers>>
             [] outcome = "throw" ->
                  /\ CatchFile(b, logged, tok)
                  /\ UNCHANGED <<media, nextMediaId>>
      /\ UNCHANGED <<callVars, storeVars, user, blobs, del, delCount>>

\* The compensating storage.remove([data.path]) completes; its result is
\* not looked at.
RemoveResponse(b, outcome) ==
  LET rec == batch[b]
      logged == [rec EXCEPT !.log[rec.idx].remove = outcome]
  IN  /\ rec.pc = "awaitRemove"
      /\ blobs' = IF outcome = "ok" THEN blobs \ {rec.path} ELSE blobs
      /\ \E tok \in Tokens :
           IF outcome = "throw"
           THEN CatchFile(b, logged, tok)
           ELSE Resume(b, logged, rec.idx + 1, uploadProgress, tok)
      /\ UNCHANGED <<callVars, storeVars, user, media, nextMediaId, del, delCount>>

\* setTimeout(() => setUploadProgress([]), 3000) fires.
ClearProgressTimer(b) ==
  /\ b \in timers
  /\ timers' = timers \ {b}
  /\ uploadProgress' = <<>>
  /\ UNCHANGED <<callVars, storeVars, user, blobs, media, nextMediaId, uploading, batch, del, delCount>>

(***************************************************************************)
(* deleteMedia                                                             *)
(***************************************************************************)
\* deleteMedia(mediaId) up to its first await.
DeleteMedia(mediaId) ==
  /\ del.pc \in {"idle", "done"}
  /\ delCount < MaxDeletes
  /\ delCount' = delCount + 1
  /\ del' = IF user = NoUser
            THEN [IdleDel EXCEPT !.pc = "done", !.mediaId = mediaId, !.result = FALSE]
            ELSE [IdleDel EXCEPT !.pc = "awaitSelect", !.mediaId = mediaId,
                                 !.user = user]
  /\ UNCHANGED <<callVars, storeVars, user, blobs, media, nextMediaId, uploading, uploadProgress,
                 timers, batch>>

\* select('storage_path').eq('id').eq('user_id').single() completes; on
\* success the blob removal is issued.
DeleteSelectResponse(outcome) ==
  LET rows == { m \in media : m.id = del.mediaId /\ m.user_id = del.user }
  IN  /\ del.pc = "awaitSelect"
      /\ outcome = "ok" => Cardinality(rows) = 1
      /\ del' = IF outcome = "ok"
                THEN [del EXCEPT !.pc = "awaitRemove",
                                 !.path = (CHOOSE m \in rows : TRUE).storage_path]
                ELSE [del EXCEPT !.pc = "done", !.result = FALSE]
      /\ UNCHANGED <<callVars, storeVars, user, blobs, media, nextMediaId, uploading, uploadProgress,
                     timers, batch, delCount>>

\* storage.remove([media.storage_path]) completes; an error result is only
\* logged, a raised fault ends the call with false.
DeleteRemoveResponse(outcome) ==
  /\ del.pc = "awaitRemove"
  /\ blobs' = IF outcome = "ok" THEN blobs \ {del.path} ELSE blobs
  /\ del' = IF outcome = "throw"
            THEN [del EXCEPT !.pc = "done", !.result = FALSE, !.removed = outcome]
            ELSE [del EXCEPT !.pc = "awaitDelete", !.removed = outcome]
  /\ UNCHANGED <<callVars, storeVars, user, media, nextMediaId, uploading, uploadProgress, timers,
                 batch, delCount>>

\* from('media').delete().eq('id').eq('user_id') completes.
DeleteRecordResponse(outcome) ==
  /\ del.pc = "awaitDelete"
  /\ media' = IF outcome = "ok"
              THEN { m \in media : ~(m.id = del.mediaId /\ m.user_id = del.user) }
              ELSE media
  /\ del' = [del EXCEPT !.pc = "done", !.result = (outcome = "ok")]
  /\ UNCHANGED <<callVars, storeVars, user, blobs, nextMediaId, uploading, uploadProgress, timers,
                 batch, delCount>>

(***************************************************************************)
(* The remote table 'entries'                                              *)
(***************************************************************************)
NoDate == 0
NoChan == 0 - 1
Clock == {2}
Limits == {1, 2}
SearchQueries == {<<>>, <<"m">>}

\* The value null of a nullable text column.
Null == <<"null">>

\* EntryFormData values of the callers and of other devices; the optional
\* fields are present or absent, the field text is the form's content.
EntryForms ==
  { [title |-> <<"M">>, text |-> <<"q">>, entry_date |-> 3,
     tags |-> <<"t">>, location_text |-> <<"L">>],
    [title |-> <<"n">>, text |-> <<"q">>, entry_date |-> NoDate,
     location_text |-> <<>>, weather_summary |-> <<"w">>] }

\* EntryUpdate values: the supplied fields only.
EntryUpdates ==
  { [title |-> <<"m", "n">>], [entry_date |-> 1] }

InitialTable ==
  { [id |-> 1, user_id |-> "A", title |-> <<"M">>, text |-> <<"q">>, entry_date |-> 2,
     tags |-> <<>>, location_text |-> Null, weather_summary |-> Null],
    [id |-> 2, user_id |-> "B", title |-> <<"n">>, text |-> <<"m">>, entry_date |-> 1,
     tags |-> <<>>, location_text |-> Null, weather_summary |-> Null] }

\* data[f] || other: a field that is absent or falsy (the empty string,
\* written empty) gives the other value.
OrElse(data, f, empty, other) ==
  IF f \in DOMAIN data /\ data[f] # empty THEN data[f] ELSE other

\* createEntry stamps every entry with the current time.
entryDataStampsNow(data, u, id, now) ==
  [id |-> id, user_id |-> u, title |-> data.title,
   text |-> data.text,
   tags |-> OrElse(data, "tags", <<>>, <<>>),
   entry_date |-> now,
   location_text |-> OrElse(data, "location_text", <<>>, Null),
   weather_summary |-> OrElse(data, "weather_summary", <<>>, Null)]

\* The row createEntry prepares (entryData) as the table stores it under a
\* new id; text and tags are the two fields of the content document.
entryData(data, u, id, now) ==
  [id |-> id, user_id |-> u, title |-> data.title,
   text |-> data.text,
   tags |-> OrElse(data, "tags", <<>>, <<>>),
   entry_date |-> OrElse(data, "entry_date", NoDate, now),
   location_text |-> OrElse(data, "location_text", <<>>, Null),
   weather_summary |-> OrElse(data, "weather_summary", <<>>, Null)]

Lower(c) == IF c = "M" THEN "m" ELSE IF c = "N" THEN "n" ELSE c
LowerSeq(str) == [k \in DOMAIN str |-> Lower(str[k])]

\* String.prototype.trim on a character sequence.
RECURSIVE Trim(_)
Trim(str) ==
  IF str = <<>> THEN <<>>
  ELSE IF Head(str) = " " THEN Trim(Tail(str))
  ELSE IF str[Len(str)] = " " THEN Trim(SubSeq(str, 1, Len(str) - 1))
  ELSE str

\* column.ilike.%q%: case-insensitive substring.
ilike(str, q) ==
  \E k \in 0..(Len(str) - Len(q)) :
    SubSeq(LowerSeq(str), k + 1, k + Len(q)) = LowerSeq(q)

\* order('entry_date', {ascending: false}); rows of equal date by id.
Before(x, y) ==
  \/ x.entry_date > y.entry_date
  \/ x.entry_date = y.entry_date /\ x.id < y.id

RECURSIVE SortDesc(_)
SortDesc(rows) ==
  IF rows = {} THEN <<>>
  ELSE LET r == CHOOSE x \in rows : \A y \in rows : x = y \/ Before(x, y)
       IN  <<r>> \o SortDesc(rows \ {r})

Take(rows, n) == SubSeq(rows, 1, IF n < Len(rows) THEN n ELSE Len(rows))

\* The list query of loadEntries, evaluated on the table.
RemoteList(table, u, l, q) ==
  Take(SortDesc({ r \in table :
                    /\ r.user_id = u
                    /\ \/ q = <<>>
                       \/ Trim(q) = <<>>
                       \/ ilike(r.title, q)
                       \/ ilike(r.text, q) }),
       l)

\* Change notifications: every open channel filtered to an owner of a
\* changed row gets one more undelivered notification.
Notified(chs, owners) ==
  { IF c.user \in owners THEN [c EXCEPT !.pending = c.pending + 1] ELSE c : c \in chs }

ChannelIds(chs) == { c.id : c \in chs }

\* The channel the subscription effect of this store opened last.
OwnChannels(chs) == { c \in chs : \A d \in chs : d.id <= c.id }

\* supabase.removeChannel(channel) in the effect's cleanup.
removeChannel(chs) == chs \ OwnChannels(chs)

\* The subscription effect: opened only with a user.
subscribe(chs, u, l, q, stamp) ==
  IF u = NoUser THEN chs
  ELSE chs \cup { [id |-> stamp, user |-> u, limit |-> l, query |-> q, pending |-> 0] }

NewFetch(u, l, q, origin, chan, curL, curQ) ==
  [id |-> nextFetchId, user |-> u, limit |-> l, query |-> q, origin |-> origin,
   chan |-> chan, data |-> RemoteList(entriesTable, u, l, q),
   curLimit |-> curL, curQuery |-> curQ]

InitStore ==
  /\ entriesTable = InitialTable
  /\ nextEntryId = 3
  /\ mounted = TRUE
  /\ limit = 2
  /\ searchQuery = <<>>
  /\ entries = <<>>
  /\ error = NoError
  /\ loading = (user # NoUser)
  /\ channels = subscribe({}, user, 2, <<>>, 0)
  /\ fetches = IF user = NoUser THEN {}
               ELSE { [id |-> 1, user |-> user, limit |-> 2, query |-> <<>>,
                       origin |-> "effect", chan |-> NoChan,
                       data |-> RemoteList(InitialTable, user, 2, <<>>),
                       curLimit |-> 2, curQuery |-> <<>>] }
  /\ nextFetchId = 2
  /\ ops = {}
  /\ rets = <<>>
  /\ callerActs = 0
  /\ remoteActs = 0
  /\ fetchFailed = FALSE

(***************************************************************************)
(* useEntries                                                              *)
(***************************************************************************)
\* Cap on the actions of the callers and of the other devices.
CanAct == callerActs + remoteActs < MaxActs

\* Cap on the remote calls in flight.
CanIssue == Cardinality(fetches) + Cardinality(ops) < MaxInFlight

\* loadEntries of a render with user u, limit l, searchQuery q, up to its
\* await; curL and curQ are the parameters of the latest render.
loadEntries(u, l, q, origin, chan, curL, curQ) ==
  IF u = NoUser
  THEN /\ loading' = FALSE
       /\ UNCHANGED <<error, fetches, nextFetchId>>
  ELSE /\ CanIssue
       /\ loading' = TRUE
       /\ error' = NoError
       /\ fetches' = fetches \cup {NewFetch(u, l, q, origin, chan, curL, curQ)}
       /\ nextFetchId' = nextFetchId + 1

\* The session changes: the render with the new user runs the cleanup of
\* the subscription effect, then the load effect and the subscription effect.
SetUser(u) ==
  /\ mounted
  /\ u # user
  /\ CanAct
  /\ callerActs' = callerActs + 1
  /\ user' = u
  /\ channels' = subscribe(removeChannel(channels), u, limit, searchQuery, callerActs + 1)
  /\ loadEntries(u, limit, searchQuery, "effect", NoChan, limit, searchQuery)
  /\ UNCHANGED <<entriesTable, nextEntryId, mounted, limit, searchQuery, entries,
                 ops, rets, remoteActs, fetchFailed, uploaderVars, callVars>>

\* The hook is rendered with another limit or searchQuery: only the load
\* effect runs again (the subscription effect depends on user alone).
SetParams(l, q) ==
  /\ mounted
  /\ <<l, q>> # <<limit, searchQuery>>
  /\ CanAct
  /\ callerActs' = callerActs + 1
  /\ limit' = l
  /\ searchQuery' = q
  /\ loadEntries(user, l, q, "effect", NoChan, l, q)
  /\ UNCHANGED <<user, entriesTable, nextEntryId, channels, mounted, entries,
                 ops, rets, remoteActs, fetchFailed, uploaderVars, callVars>>

\* refreshEntries() of the latest render.
RefreshEntries ==
  /\ mounted
  /\ CanAct
  /\ callerActs' = callerActs + 1
  /\ loadEntries(user, limit, searchQuery, "refresh", NoChan, limit, searchQuery)
  /\ UNCHANGED <<user, entriesTable, nextEntryId, channels, mounted, limit,
                 searchQuery, entries, ops, rets, remoteActs, fetchFailed,
                 uploaderVars, callVars>>

\* The store is disposed: the cleanup of the subscription effect runs.
Unmount ==
  /\ mounted
  /\ CanAct
  /\ callerActs' = callerActs + 1
  /\ mounted' = FALSE
  /\ channels' = removeChannel(channels)
  /\ UNCHANGED <<user, entriesTable, nextEntryId, limit, searchQuery, entries,
                 loading, error, fetches, nextFetchId, ops, rets, remoteActs,
                 fetchFailed, uploaderVars, callVars>>

\* The callback of an open channel runs: loadEntries() of the render that
\* opened the channel.
DeliverNotification(c) ==
  /\ c \in channels
  /\ c.pending > 0
  /\ channels' = (channels \ {c}) \cup {[c EXCEPT !.pending = c.pending - 1]}
  /\ loadEntries(c.user, c.limit, c.query, "notify", c.id, limit, searchQuery)
  /\ UNCHANGED <<user, entriesTable, nextEntryId, mounted, limit, searchQuery,
                 entries, ops, rets, callerActs, remoteActs, fetchFailed,
                 uploaderVars, callVars>>

\* A failed list query empties the list (setEntries(data || []) run on the
\* error paths too).
FetchResponseClearsList(f, outcome) ==
  /\ f \in fetches
  /\ fetches' = fetches \ {f}
  /\ fetchFailed' = (fetchFailed \/ outcome # "ok")
  /\ failedFetches' = IF outcome = "ok" THEN failedFetches ELSE failedFetches + 1
  /\ IF mounted
     THEN /\ entries' = IF outcome = "ok" THEN f.data ELSE <<>>
          /\ error' = CASE outcome = "ok" -> error
                        [] outcome = "error" -> "Failed to load entries"
                        [] outcome = "throw" -> "An unexpected error occurred"
          /\ loading' = FALSE
     ELSE UNCHANGED <<entries, error, loading>>
  /\ UNCHANGED <<user, entriesTable, nextEntryId, channels, mounted, limit,
                 searchQuery, nextFetchId, ops, rets, callerActs, remoteActs,
                 uploaderVars, created, queried, tzOffset, validated, editor>>

\* The list query of a loadEntries call completes.  State setters of a
\* disposed store have no effect.
FetchResponse(f, outcome) ==
  /\ f \in fetches
  /\ fetches' = fetches \ {f}
  /\ fetchFailed' = (fetchFailed \/ outcome # "ok")
  /\ failedFetches' = IF outcome = "ok" THEN failedFetches ELSE failedFetches + 1
  /\ IF mounted
     THEN /\ entries' = IF outcome = "ok" THEN f.data ELSE entries
          /\ error' = CASE outcome = "ok" -> error
                        [] outcome = "error" -> "Failed to load entries"
                        [] outcome = "throw" -> "An unexpected error occurred"
          /\ loading' = FALSE
     ELSE UNCHANGED <<entries, error, loading>>
  /\ UNCHANGED <<user, entriesTable, nextEntryId, channels, mounted, limit,
                 searchQuery, nextFetchId, ops, rets, callerActs, remoteActs,
                 uploaderVars, created, queried, tzOffset, validated, editor>>

OwnerOf(table, id) ==
  IF \E r \in table : r.id = id
  THEN (CHOOSE r \in table : r.id = id).user_id
  ELSE NoUser

NewOp(kind, id, outcome, row, changed) ==
  [no |-> callerActs + 1, kind |-> kind, id |-> id, user |-> user,
   ok |-> (outcome = "ok"), row |-> row, owner |-> OwnerOf(entriesTable, id),
   changed |-> changed, returned |-> Len(rets)]

NoRow == [id |-> 0]

NoCreate == [id |-> 0, form |-> NoRow, table |-> {}]
NoQuery == [kind |-> "none"]
NoValidation == [file |-> NoRow, result |-> NoRow]

\* The form state of the editor as useState initialises it and resetForm
\* resets it.
EmptyForm == [title |-> <<>>, content |-> <<>>, selectedFiles |-> <<>>]

\* An editor that is not shown.
IdleEditor ==
  [open |-> FALSE, editingEntryId |-> NoEntry, form |-> EmptyForm,
   isSubmitting |-> FALSE, pc |-> "idle", op |-> 0, b |-> 0,
   selectedFiles |-> <<>>]

InitCalls ==
  /\ failedFetches = 0
  /\ created = NoCreate
  /\ queried = NoQuery
  /\ tzOffset = 0
  /\ validated = NoValidation
  /\ editor = IdleEditor

Returned(o, result, listChanged) ==
  [no |-> o.no, kind |-> o.kind, id |-> o.id, user |-> o.user,
   ok |-> o.ok, result |-> result, owner |-> o.owner,
   changed |-> o.changed, listChanged |-> listChanged, returned |-> o.returned]

\* createEntry(data) up to its await; now is the clock's reading.
CreateEntry(data, now, outcome) ==
  LET newEntry == entryData(data, user, nextEntryId, now)
  IN  /\ mounted
      /\ CanAct
      /\ callerActs' = callerActs + 1
      /\ IF user = NoUser
         THEN /\ rets' = Append(rets, Returned(NewOp("create", 0, "none", NoRow, FALSE),
                                               "null", FALSE))
              /\ UNCHANGED <<entriesTable, nextEntryId, channels, ops, created>>
         ELSE IF outcome = "ok"
         THEN /\ CanIssue
              /\ entriesTable' = entriesTable \cup {newEntry}
              /\ nextEntryId' = nextEntryId + 1
              /\ channels' = Notified(channels, {user})
              /\ ops' = ops \cup {NewOp("create", newEntry.id, outcome, newEntry, TRUE)}
              /\ created' = [id |-> newEntry.id, form |-> data, table |-> entriesTable']
              /\ UNCHANGED rets
         ELSE /\ CanIssue
              /\ ops' = ops \cup {NewOp("create", 0, outcome, NoRow, FALSE)}
              /\ UNCHANGED <<entriesTable, nextEntryId, channels, rets, created>>
      /\ UNCHANGED <<user, mounted, limit, searchQuery, entries, loading, error,
                     fetches, nextFetchId, remoteActs, fetchFailed, uploaderVars,
                     failedFetches, queried, tzOffset, validated>>

\* update(...).eq('id', id).eq('user_id', user.id).select().single() on the
\* table: the patched row, or no row.
Patched(row, data) ==
  [f \in DOMAIN row |-> IF f \in DOMAIN data THEN data[f] ELSE row[f]]

\* updateEntry(id, data) up to its await.  single() reports an error result
\* when no row matched; a matched row always changes (updated_at).
UpdateEntry(id, data, outcome) ==
  LET rows == { r \in entriesTable : r.id = id /\ r.user_id = user }
      updatedEntry == Patched(CHOOSE r \in rows : TRUE, data)
  IN  /\ mounted
      /\ CanAct
      /\ callerActs' = callerActs + 1
      /\ IF user = NoUser
         THEN /\ rets' = Append(rets, Returned(NewOp("update", id, "none", NoRow, FALSE),
                                               "null", FALSE))
              /\ UNCHANGED <<entriesTable, channels, ops>>
         ELSE IF outcome = "ok"
         THEN /\ CanIssue
              /\ rows # {}
              /\ entriesTable' = (entriesTable \ rows) \cup {updatedEntry}
              /\ channels' = Notified(channels, {user})
              /\ ops' = ops \cup {NewOp("update", id, outcome, updatedEntry, TRUE)}
              /\ UNCHANGED rets
         ELSE /\ CanIssue
              /\ ops' = ops \cup {NewOp("update", id, outcome, NoRow, FALSE)}
              /\ UNCHANGED <<entriesTable, channels, rets>>
      /\ UNCHANGED <<user, nextEntryId, mounted, limit, searchQuery, entries,
                     loading, error, fetches, nextFetchId, remoteActs, fetchFailed,
                     uploaderVars, failedFetches, created, queried, tzOffset,
                     validated>>

\* deleteEntry(id) up to its await.  A delete that matches no row is not an
\* error of the remote table.
DeleteEntry(id, outcome) ==
  LET rows == { r \in entriesTable : r.id = id /\ r.user_id = user }
  IN  /\ mounted
      /\ CanAct
      /\ callerActs' = callerActs + 1
      /\ IF user = NoUser
         THEN /\ rets' = Append(rets, Returned(NewOp("delete", id, "none", NoRow, FALSE),
                                               "false", FALSE))
              /\ UNCHANGED <<entriesTable, channels, ops>>
         ELSE IF outcome = "ok"
         THEN /\ CanIssue
              /\ entriesTable' = entriesTable \ rows
              /\ channels' = IF rows = {} THEN channels ELSE Notified(channels, {user})
              /\ ops' = ops \cup {NewOp("delete", id, outcome, NoRow, rows # {})}
              /\ UNCHANGED rets
         ELSE /\ CanIssue
              /\ ops' = ops \cup {NewOp("delete", id, outcome, NoRow, FALSE)}
              /\ UNCHANGED <<entriesTable, channels, rets>>
      /\ UNCHANGED <<user, nextEntryId, mounted, limit, searchQuery, entries,
                     loading, error, fetches, nextFetchId, remoteActs, fetchFailed,
                     uploaderVars, callVars>>

\* The continuation of createEntry, updateEntry or deleteEntry after its
\* await: the local update and the returned value.
OpResult(o) ==
  IF ~o.ok THEN (IF o.kind = "delete" THEN "false" ELSE "null")
  ELSE IF o.kind = "delete" THEN "true" ELSE "entry"

\* updateEntry moving the updated entry to the head of the list.
mapReplaceToFront(list, id, row) ==
  IF \E k \in DOMAIN list : list[k].id = id
  THEN <<row>> \o SelectSeq(list, LAMBDA e : e.id # id)
  ELSE list

\* prev.map(entry => entry.id === id ? updatedEntry : entry)
mapReplace(list, id, row) ==
  [k \in DOMAIN list |-> IF list[k].id = id THEN row ELSE list[k]]

\* deleteEntry removing only the first element of that id.
filterOutFirst(list, id) ==
  IF \E k \in DOMAIN list : list[k].id = id
  THEN LET first == CHOOSE k \in DOMAIN list :
                      list[k].id = id /\ \A j \in 1..(k - 1) : list[j].id # id
       IN  SubSeq(list, 1, first - 1) \o SubSeq(list, first + 1, Len(list))
  ELSE list

\* prev.filter(entry => entry.id !== id)
filterOut(list, id) ==
  SelectSeq(list, LAMBDA e : e.id # id)

\* createEntry puts the new entry after the previous list.
LocalUpdateAppends(list, o) ==
  IF ~o.ok THEN list
  ELSE CASE o.kind = "create" -> list \o <<o.row>>
         [] o.kind = "update" -> mapReplace(list, o.id, o.row)
         [] o.kind = "delete" -> filterOut(list, o.id)

LocalUpdate(list, o) ==
  IF ~o.ok THEN list
  ELSE CASE o.kind = "create" -> <<o.row>> \o list
         [] o.kind = "update" -> mapReplace(list, o.id, o.row)
         [] o.kind = "delete" -> filterOut(list, o.id)

OpResponse(o) ==
  /\ o \in ops
  /\ ops' = ops \ {o}
  /\ entries' = IF mounted THEN LocalUpdate(entries, o) ELSE entries
  /\ rets' = Append(rets, Returned(o, OpResult(o), entries' # entries))
  /\ UNCHANGED <<user, entriesTable, nextEntryId, channels, mounted, limit,
                 searchQuery, loading, error, fetches, nextFetchId, callerActs,
                 remoteActs, fetchFailed, uploaderVars, callVars>>

\* The value a searchEntries or getEntriesByDate call returns; outcome is
\* that of its query of the remote table, "none" when it made none.
Queried(kind, arg, outcome, result) ==
  [kind |-> kind, arg |-> arg, user |-> user, tz |-> tzOffset,
   outcome |-> outcome, result |-> result]

\* The query of searchEntries evaluated on the table: no limit.
RemoteSearch(table, u, q) ==
  SortDesc({ r \in table :
               /\ r.user_id = u
               /\ (ilike(r.title, q) \/ ilike(r.text, q)) })

\* searchEntries(query).  The call writes no state of the hook, so the query
\* and the return of its result are taken as one step.
SearchEntries(query, outcome) ==
  /\ mounted
  /\ queried' = IF user = NoUser \/ Trim(query) = <<>>
                THEN Queried("search", query, "none", <<>>)
                ELSE Queried("search", query, outcome,
                             IF outcome = "ok"
                             THEN RemoteSearch(entriesTable, user, query)
                             ELSE <<>>)
  /\ UNCHANGED <<user, storeVars, uploaderVars, failedFetches, created, tzOffset,
                 validated, editor>>

\* A day in milliseconds; instants are milliseconds of UTC since an epoch.
DayMs == 86400000

\* new Date(date) for a date-only string: the midnight of UTC that begins
\* day number date.
ParseDate(date) == date * DayMs

\* setHours(h, m, s, ms) with the milliseconds msOfDay into a day: the
\* instant with the local calendar day of instant t and that local time.
setHours(t, msOfDay, tz) ==
  ((t + tz) \div DayMs) * DayMs + msOfDay - tz

\* The query of getEntriesByDate evaluated on the table; toISOString names
\* an instant in UTC to the millisecond, so the bounds are the instants.
RemoteByDate(table, u, date, tz) ==
  LET startOfDay == setHours(ParseDate(date), 0, tz)
      endOfDay == setHours(ParseDate(date), DayMs - 1, tz)
  IN  SortDesc({ r \in table :
                   /\ r.user_id = u
                   /\ r.entry_date >= startOfDay
                   /\ r.entry_date <= endOfDay })

\* getEntriesByDate(date), query and return as one step.
GetEntriesByDate(date, outcome) ==
  /\ mounted
  /\ queried' = IF user = NoUser
                THEN Queried("byDate", date, "none", <<>>)
                ELSE Queried("byDate", date, outcome,
                             IF outcome = "ok"
                             THEN RemoteByDate(entriesTable, user, date, tzOffset)
                             ELSE <<>>)
  /\ UNCHANGED <<user, storeVars, uploaderVars, failedFetches, created, tzOffset,
                 validated, editor>>

(***************************************************************************)
(* Other devices changing the table                                        *)
(***************************************************************************)
RemoteInsert(u, data, now) ==
  LET row == entryData(data, u, nextEntryId, now)
  IN  /\ CanAct
      /\ remoteActs' = remoteActs + 1
      /\ entriesTable' = entriesTable \cup {row}
      /\ nextEntryId' = nextEntryId + 1
      /\ channels' = Notified(channels, {u})
      /\ UNCHANGED <<user, mounted, limit, searchQuery, entries, loading, error,
                     fetches, nextFetchId, ops, rets, callerActs, fetchFailed,
                     uploaderVars, callVars>>

RemoteUpdate(row, data) ==
  /\ CanAct
  /\ row \in entriesTable
  /\ Patched(row, data) # row
  /\ remoteActs' = remoteActs + 1
  /\ entriesTable' = (entriesTable \ {row}) \cup {Patched(row, data)}
  /\ channels' = Notified(channels, {row.user_id})
  /\ UNCHANGED <<user, nextEntryId, mounted, limit, searchQuery, entries, loading,
                 error, fetches, nextFetchId, ops, rets, callerActs, fetchFailed,
                 uploaderVars, callVars>>

RemoteDelete(row) ==
  /\ CanAct
  /\ row \in entriesTable
  /\ remoteActs' = remoteActs + 1
  /\ entriesTable' = entriesTable \ {row}
  /\ channels' = Notified(channels, {row.user_id})
  /\ UNCHANGED <<user, nextEntryId, mounted, limit, searchQuery, entries, loading,
                 error, fetches, nextFetchId, ops, rets, callerActs, fetchFailed,
                 uploaderVars, callVars>>

(***************************************************************************)
(* Specification of the entry store                                        *)
(***************************************************************************)
InitEntries ==
  /\ user \in {NoUser, "A"}
  /\ InitUploader
  /\ InitStore
  /\ InitCalls

NextEntries ==
  \/ \E u \in Users \cup {NoUser} : SetUser(u)
  \/ \E l \in Limits, q \in SearchQueries : SetParams(l, q)
  \/ RefreshEntries
  \/ Unmount
  \/ \E c \in channels : DeliverNotification(c)
  \/ \E f \in fetches, outcome \in Outcomes : FetchResponse(f, outcome)
  \/ \E data \in EntryForms, now \in Clock, outcome \in Outcomes :
       CreateEntry(data, now, outcome) /\ UNCHANGED editor
  \/ \E id \in 1..(nextEntryId - 1), data \in EntryUpdates, outcome \in Outcomes :
       UpdateEntry(id, data, outcome) /\ UNCHANGED editor
  \/ \E id \in 1..(nextEntryId - 1), outcome \in Outcomes : DeleteEntry(id, outcome)
  \/ \E o \in ops : OpResponse(o)
  \/ \E u \in Users, data \in EntryForms, now \in Clock : RemoteInsert(u, data, now)
  \/ \E row \in entriesTable, data \in EntryUpdates : RemoteUpdate(row, data)
  \/ \E row \in entriesTable : RemoteDelete(row)

SpecEntries == InitEntries /\ [][NextEntries]_vars

\* The list of one user: loading, creating, and the inserts of other devices.
NextList ==
  \/ \E l \in Limits, q \in SearchQueries : SetParams(l, q)
  \/ RefreshEntries
  \/ Unmount
  \/ \E c \in channels : DeliverNotification(c)
  \/ \E f \in fetches, outcome \in Outcomes : FetchResponse(f, outcome)
  \/ \E data \in EntryForms, now \in Clock, outcome \in Outcomes :
       CreateEntry(data, now, outcome) /\ UNCHANGED editor
  \/ \E o \in ops : OpResponse(o)
  \/ \E data \in EntryForms, now \in Clock : RemoteInsert("A", data, now)

SpecList == InitEntries /\ [][NextList]_vars

\* The store of user A after its construction.
InitSignedIn ==
  /\ user = "A"
  /\ InitUploader
  /\ InitStore
  /\ InitCalls

\* One user editing the list: entries are created, updated and deleted; a
\* reload started by a notification overlaps a createEntry call in flight;
\* the list queries succeed.
NextEdit ==
  \/ (\E o \in ops : o.kind = "create") /\ \E c \in channels : DeliverNotification(c)
  \/ \E f \in fetches : FetchResponse(f, "ok")
  \/ \E data \in EntryForms, now \in Clock : CreateEntry(data, now, "ok") /\ UNCHANGED editor
  \/ \E id \in 1..(nextEntryId - 1), data \in EntryUpdates, outcome \in Outcomes :
       UpdateEntry(id, data, outcome) /\ UNCHANGED editor
  \/ \E id \in 1..(nextEntryId - 1), outcome \in Outcomes : DeleteEntry(id, outcome)
  \/ \E o \in ops : OpResponse(o)

SpecEdit == InitSignedIn /\ [][NextEdit]_vars

(***************************************************************************)
(* Specification of the uploader                                           *)
(***************************************************************************)
InitUpload ==
  /\ user \in {NoUser, "A"}
  /\ InitUploader
  /\ InitStore
  /\ InitCalls

NextUpload ==
  \/ \E files \in FileSeqs, entryId \in {NoEntry, 1} :
       UploadFiles(1, files, entryId) /\ UNCHANGED editor
  \/ \E b \in Batches, outcome \in Outcomes : UploadResponse(b, outcome)
  \/ \E b \in Batches, outcome \in Outcomes : InsertResponse(b, outcome)
  \/ \E b \in Batches, outcome \in Outcomes : RemoveResponse(b, outcome)
  \/ \E b \in Batches : ClearProgressTimer(b)
  \/ \E mediaId \in 1..nextMediaId : DeleteMedia(mediaId)
  \/ \E outcome \in Outcomes : DeleteSelectResponse(outcome)
  \/ \E outcome \in Outcomes : DeleteRemoveResponse(outcome)
  \/ \E outcome \in Outcomes : DeleteRecordResponse(outcome)

SpecUpload == InitUpload /\ [][NextUpload]_vars

(***************************************************************************)
(* Specification of the uploader with a second deleteMedia call, made on    *)
(* another device or overlapping the first, that completes                  *)
(***************************************************************************)
\* Another deleteMedia call of the record's owner removes blob and record.
OtherDeleteMedia(m) ==
  /\ m \in media
  /\ blobs' = blobs \ {m.storage_path}
  /\ media' = media \ {m}
  /\ UNCHANGED <<callVars, storeVars, user, nextMediaId, uploading, uploadProgress,
                 timers, batch, del, delCount>>

NextDelete ==
  \/ NextUpload
  \/ \E m \in media : OtherDeleteMedia(m)

SpecDelete == InitUpload /\ [][NextDelete]_vars

(***************************************************************************)
(* Specification of several uploadFiles calls on one uploader               *)
(***************************************************************************)
NextBatches ==
  \/ \E b \in Batches, files \in FileSeqs : UploadFiles(b, files, NoEntry) /\ UNCHANGED editor
  \/ \E b \in Batches, outcome \in Outcomes : UploadResponse(b, outcome)
  \/ \E b \in Batches, outcome \in Outcomes : InsertResponse(b, outcome)
  \/ \E b \in Batches, outcome \in Outcomes : RemoveResponse(b, outcome)
  \/ \E b \in Batches : ClearProgressTimer(b)

SpecBatches == InitUpload /\ [][NextBatches]_vars

(***************************************************************************)
(* Specification of getEntriesByDate in several time zones, on entries at   *)
(* the first and the last millisecond of the days around the queried day    *)
(***************************************************************************)
HourMs == 3600000

\* Local time minus UTC: New York (winter), UTC, Helsinki (winter).
TzOffsets == {0 - 5 * HourMs, 0, 2 * HourMs}

\* The day number of the date strings queried.
QueriedDays == {2}

\* The first and last millisecond of day 2 and their neighbours, in each of
\* the time zones.
BoundaryInstants ==
  UNION { { 2 * DayMs - tz - 1, 2 * DayMs - tz, 3 * DayMs - tz - 1, 3 * DayMs - tz } :
            tz \in TzOffsets }

BoundaryRow(id, t) ==
  [id |-> id, user_id |-> "A", title |-> <<"M">>, text |-> <<"q">>, entry_date |-> t,
   tags |-> <<>>, location_text |-> Null, weather_summary |-> Null]

\* Tables of two entries of user A and one entry of user B.
BoundaryTables ==
  { { BoundaryRow(1, p[1]), BoundaryRow(2, p[2]),
      [BoundaryRow(3, 2 * DayMs + HourMs) EXCEPT !.user_id = "B"] } :
      p \in { q \in BoundaryInstants \X BoundaryInstants : q[1] <= q[2] } }

InitDates ==
  /\ user = "A"
  /\ InitUploader
  /\ entriesTable \in BoundaryTables
  /\ nextEntryId = 4
  /\ mounted = TRUE
  /\ limit = 2
  /\ searchQuery = <<>>
  /\ entries = <<>>
  /\ error = NoError
  /\ loading = TRUE
  /\ channels = subscribe({}, user, 2, <<>>, 0)
  /\ fetches = { [id |-> 1, user |-> user, limit |-> 2, query |-> <<>>,
                  origin |-> "effect", chan |-> NoChan,
                  data |-> RemoteList(entriesTable, user, 2, <<>>),
                  curLimit |-> 2, curQuery |-> <<>>] }
  /\ nextFetchId = 2
  /\ ops = {}
  /\ rets = <<>>
  /\ callerActs = 0
  /\ remoteActs = 0
  /\ fetchFailed = FALSE
  /\ failedFetches = 0
  /\ created = NoCreate
  /\ queried = NoQuery
  /\ tzOffset \in TzOffsets
  /\ validated = NoValidation
  /\ editor = IdleEditor

NextDates ==
  \E date \in QueriedDays, outcome \in Outcomes : GetEntriesByDate(date, outcome)

SpecDates == InitDates /\ [][NextDates]_vars

(***************************************************************************)
(* Specification of validateFile on files of every type at the ceilings    *)
(***************************************************************************)
ProbeTypes ==
  UNION { SUPPORTED_FILE_TYPES[c].mimeTypes : c \in DOMAIN SUPPORTED_FILE_TYPES }
    \cup {"application/x-msdownload", "image/svg+xml", ""}

ProbeSizes ==
  {0} \cup UNION { {SUPPORTED_FILE_TYPES[c].maxSize, SUPPORTED_FILE_TYPES[c].maxSize + 1} :
                     c \in DOMAIN SUPPORTED_FILE_TYPES }

ProbeFiles ==
  { [name |-> <<"a", ".", "p">>, type |-> t, size |-> z] :
      t \in ProbeTypes, z \in ProbeSizes }

\* validateFile(file) called by a component.
ValidateFile(file) ==
  /\ validated' = [file |-> file, result |-> validateFile(file)]
  /\ UNCHANGED <<user, storeVars, uploaderVars, failedFetches, created, queried,
                 tzOffset, editor>>

NextValidate == \E file \in ProbeFiles : ValidateFile(file)

SpecValidate == InitUpload /\ [][NextValidate]_vars

(***************************************************************************)
(* Specification of a session that ends: the calls made without a user     *)
(***************************************************************************)
NextSignedOut ==
  \/ SetUser(NoUser)
  \/ \E f \in fetches, outcome \in Outcomes : FetchResponse(f, outcome)
  \/ user = NoUser /\ \E l \in Limits, q \in SearchQueries : SetParams(l, q)
  \/ user = NoUser /\ RefreshEntries
  \/ user = NoUser /\ \E data \in EntryForms, now \in Clock, outcome \in Outcomes :
                         CreateEntry(data, now, outcome) /\ UNCHANGED editor
  \/ user = NoUser /\ \E id \in 1..(nextEntryId - 1), data \in EntryUpdates,
                           outcome \in Outcomes : UpdateEntry(id, data, outcome) /\ UNCHANGED editor
  \/ user = NoUser /\ \E id \in 1..(nextEntryId - 1), outcome \in Outcomes :
                         DeleteEntry(id, outcome)
  \/ user = NoUser /\ \E q \in SearchQueries, outcome \in Outcomes :
                         SearchEntries(q, outcome)
  \/ user = NoUser /\ \E date \in 1..2, outcome \in Outcomes :
                         GetEntriesByDate(date, outcome)
  \/ user = NoUser /\ \E files \in FileSeqs, entryId \in {NoEntry, 1} :
                         UploadFiles(1, files, entryId) /\ UNCHANGED editor
  \/ user = NoUser /\ \E mediaId \in 1..nextMediaId : DeleteMedia(mediaId)

SpecSignedOut == InitEntries /\ [][NextSignedOut]_vars

(***************************************************************************)
(* EntryEditor: the save workflow of the editor dialog, which calls         *)
(* createEntry or updateEntry of its store and uploadFiles of its uploader  *)
(***************************************************************************)
\* What the user types and selects in the form: a title or a blank one,
\* no file or one file of a supported type.
EditorForms ==
  { [title |-> t, content |-> <<"q">>, selectedFiles |-> fs] :
      t \in {<<"M">>, <<" ">>},
      fs \in {<<>>} \cup { <<f>> : f \in { g \in FileSet : validateFile(g).isValid } } }

\* The entry ids the parent passes as editingEntryId.
EditedEntries == {NoEntry, 1}

\* The entryData handleSave prepares: the title trimmed, the date of the
\* date field, location and weather null when blank, the tags.
EditorEntryData(form) ==
  [title |-> Trim(form.title), text |-> form.content, entry_date |-> 3,
   location_text |-> Null, weather_summary |-> Null, tags |-> <<>>]

\* The parent shows the dialog, for a new entry or for an entry to edit.
OpenDialog(id) ==
  /\ ~editor.open
  /\ editor.pc = "idle"
  /\ editor' = [editor EXCEPT !.open = TRUE, !.editingEntryId = id]
  /\ UNCHANGED <<user, storeVars, uploaderVars, failedFetches, created, queried,
                 tzOffset, validated>>

\* The user fills the fields of the form (disabled while submitting).
EditForm(form) ==
  /\ editor.open
  /\ ~editor.isSubmitting
  /\ form # editor.form
  /\ editor' = [editor EXCEPT !.form = form]
  /\ UNCHANGED <<user, storeVars, uploaderVars, failedFetches, created, queried,
                 tzOffset, validated>>

\* The dialog is dismissed (Escape, click outside): onOpenChange(false) of
\* the parent, then the effect on open runs resetForm.
DismissDialog ==
  /\ editor.open
  /\ editor' = [editor EXCEPT !.open = FALSE, !.form = EmptyForm,
                              !.isSubmitting = FALSE]
  /\ UNCHANGED <<user, storeVars, uploaderVars, failedFetches, created, queried,
                 tzOffset, validated>>

\* handleSave() up to its first await: the checks of title and content,
\* then createEntry or updateEntry.  The save button is disabled while
\* submitting or uploading.  The update is let succeed although the data
\* name a column (tags) the table does not have.
HandleSave(now, outcome) ==
  /\ editor.open
  /\ ~editor.isSubmitting
  /\ ~uploading
  /\ editor.pc = "idle"
  /\ IF Trim(editor.form.title) = <<>> \/ Trim(editor.form.content) = <<>>
     THEN UNCHANGED vars
     ELSE /\ editor' = [editor EXCEPT !.isSubmitting = TRUE, !.pc = "awaitSave",
                                      !.op = callerActs + 1,
                                      !.selectedFiles = editor.form.selectedFiles]
          /\ IF editor.editingEntryId # NoEntry
             THEN UpdateEntry(editor.editingEntryId, EditorEntryData(editor.form), outcome)
             ELSE CreateEntry(EditorEntryData(editor.form), now, outcome)

\* The next uploadFiles call of the uploader instance.
NextBatch == CHOOSE b \in Batches : batch[b].pc = "idle" /\ \A c \in Batches : c < b => batch[c].pc # "idle"

\* The success path of handleSave: resetForm, onOpenChange(false).
Saved(ed) ==
  [ed EXCEPT !.pc = "idle", !.form = EmptyForm, !.isSubmitting = FALSE,
             !.open = FALSE, !.selectedFiles = <<>>]

\* handleSave calling uploadFiles whatever the save returned.
SaveReturnedUnchecked(k) ==
  /\ editor.pc = "awaitSave"
  /\ k \in DOMAIN rets
  /\ rets[k].no = editor.op
  /\ IF editor.selectedFiles = <<>>
     THEN /\ editor' = Saved(editor)
          /\ UNCHANGED <<user, storeVars, uploaderVars, failedFetches, created,
                         queried, tzOffset, validated>>
     ELSE /\ \E b \in Batches : batch[b].pc = "idle"
          /\ editor' = [editor EXCEPT !.pc = "awaitUpload", !.b = NextBatch]
          /\ UploadFiles(NextBatch, editor.selectedFiles, rets[k].id)

\* handleSave after its createEntry or updateEntry call returned (the call
\* is number k of the returned calls): a null result is thrown and caught,
\* and finally clears isSubmitting; otherwise the selected files, if any,
\* are passed to uploadFiles with the id of the saved entry.
SaveReturned(k) ==
  /\ editor.pc = "awaitSave"
  /\ k \in DOMAIN rets
  /\ rets[k].no = editor.op
  /\ IF rets[k].result = "null"
     THEN /\ editor' = [editor EXCEPT !.pc = "idle", !.isSubmitting = FALSE,
                                      !.selectedFiles = <<>>]
          /\ UNCHANGED <<user, storeVars, uploaderVars, failedFetches, created,
                         queried, tzOffset, validated>>
     ELSE IF editor.selectedFiles = <<>>
     THEN /\ editor' = Saved(editor)
          /\ UNCHANGED <<user, storeVars, uploaderVars, failedFetches, created,
                         queried, tzOffset, validated>>
     ELSE /\ \E b \in Batches : batch[b].pc = "idle"
          /\ editor' = [editor EXCEPT !.pc = "awaitUpload", !.b = NextBatch]
          /\ UploadFiles(NextBatch, editor.selectedFiles, rets[k].id)

\* handleSave after its uploadFiles call returned.
UploadReturned ==
  /\ editor.pc = "awaitUpload"
  /\ batch[editor.b].pc = "done"
  /\ editor' = Saved(editor)
  /\ UNCHANGED <<user, storeVars, uploaderVars, failedFetches, created, queried,
                 tzOffset, validated>>

InitEditor ==
  /\ user = "A"
  /\ InitUploader
  /\ InitStore
  /\ failedFetches = 0
  /\ created = NoCreate
  /\ queried = NoQuery
  /\ tzOffset = 0
  /\ validated = NoValidation
  /\ editor \in { [IdleEditor EXCEPT !.open = TRUE, !.editingEntryId = id] :
                    id \in EditedEntries }

\* One editor: its dialog, its saves, and the uploads they start; the
\* record inserts of the uploads succeed, the list query of the store's
\* construction stays in flight.
NextEditor ==
  \/ \E id \in EditedEntries : OpenDialog(id)
  \/ \E form \in EditorForms : EditForm(form)
  \/ DismissDialog
  \/ \E now \in Clock, outcome \in Outcomes : HandleSave(now, outcome)
  \/ \E o \in ops : OpResponse(o)
  \/ \E k \in DOMAIN rets : SaveReturned(k)
  \/ \E b \in Batches, outcome \in Outcomes : UploadResponse(b, outcome)
  \/ \E b \in Batches : InsertResponse(b, "ok")
  \/ UploadReturned

SpecEditor == InitEditor /\ [][NextEditor]_vars

(***************************************************************************)
(* Properties of uploadFiles and deleteMedia                               *)
(***************************************************************************)
\* The files of a batch that passed validation, blob write and record insert.
Passed(lg) == lg.valid = "yes" /\ lg.upload = "ok" /\ lg.insert = "ok"

PassedIdx(rec) ==
  SelectSeq([k \in 1..Len(rec.files) |-> k], LAMBDA k : Passed(rec.log[k]))

\* C1: when uploadFiles has returned, no blob exists at the storagePath of a
\* file whose blob write succeeded and whose record insert then failed
\* (error result or raised fault).
C1_NoBlobAfterFailedInsert ==
  \A b \in Batches :
    batch[b].pc = "done" =>
      \A i \in DOMAIN batch[b].log :
        (batch[b].log[i].upload = "ok" /\ batch[b].log[i].insert \in {"error", "throw"})
          => batch[b].log[i].path \notin blobs

\* C2: in every state every MediaRecord of the media table has a blob stored
\* at its storagePath.
C2_RecordHasBlob ==
  \A m \in media : m.storage_path \in blobs

\* C3: in the step that issues the first remote call of a file, every earlier
\* file of the batch has its blob and its MediaRecord both present or both
\* absent, and the batch has no remote call of an earlier file pending.
C3_PairResolvedBeforeNextFile ==
  [][\A b \in Batches :
       (batch'[b].pc = "awaitUpload" /\ batch'[b].idx # batch[b].idx) =>
         \A n \in 1..(batch'[b].idx - 1) :
           /\ batch'[b].log[n].path # NoPath =>
                ((batch'[b].log[n].path \in blobs')
                   <=> (\E m \in media' : m.storage_path = batch'[b].log[n].path))
           /\ ~(batch'[b].pc \in {"awaitUpload", "awaitInsert", "awaitRemove"}
                /\ batch'[b].idx = n)]_vars

\* C4: a returned batch has processed every one of its files, and its
\* returned sequence holds exactly the MediaRecords of the files that passed
\* validation, blob write and record insert, in input order.
C4_BatchIndependence ==
  \A b \in Batches :
    (batch[b].pc = "done" /\ batch[b].user # NoUser) =>
      LET rec == batch[b]
          ok == PassedIdx(rec)
      IN  /\ \A i \in 1..Len(rec.files) :
               /\ rec.log[i].valid # "none"
               /\ rec.log[i].valid = "yes" => rec.log[i].upload # "none"
               /\ rec.log[i].upload = "ok" => rec.log[i].insert # "none"
          /\ Len(rec.uploadedMedia) = Len(ok)
          /\ \A k \in 1..Len(ok) :
               /\ rec.uploadedMedia[k].storage_path = rec.log[ok[k]].path
               /\ rec.uploadedMedia[k].file_name = rec.files[ok[k]].name
               /\ rec.uploadedMedia[k].user_id = rec.user

\* C4 witness: a returned batch whose first file failed by a raised fault at
\* the record insert and whose second file is in the returned sequence.
C4_Witness ==
  \E b \in Batches :
    /\ batch[b].pc = "done"
    /\ Len(batch[b].log) = 2
    /\ batch[b].log[1].insert = "throw"
    /\ Passed(batch[b].log[2])
    /\ Len(batch[b].uploadedMedia) = 1

(***************************************************************************)
(* Properties of the entry store                                           *)
(***************************************************************************)
\* C5: an updateEntry or deleteEntry call on an entry owned by a user other
\* than the caller returns null, respectively false, and does not change the
\* remote table.
C5_OwnershipIsolation ==
  \A k \in DOMAIN rets :
    (/\ rets[k].kind \in {"update", "delete"}
     /\ rets[k].user \in Users
     /\ rets[k].owner \in Users
     /\ rets[k].owner # rets[k].user)
      => /\ rets[k].result = (IF rets[k].kind = "update" THEN "null" ELSE "false")
         /\ ~rets[k].changed

\* C6: while a user is authenticated, every element of the in-memory entries
\* list is owned by that user.
C6_ListOwnedByUser ==
  user # NoUser => \A k \in DOMAIN entries : entries[k].user_id = user

\* C7: two deleteEntry(id) calls in a row by the owner of an existing entry,
\* neither failing at the remote table, return true then false, and the
\* second changes neither the remote table nor the in-memory list.
C7_IdempotentDelete ==
  \A k \in DOMAIN rets :
    (/\ k + 1 \in DOMAIN rets
     /\ rets[k].kind = "delete" /\ rets[k + 1].kind = "delete"
     /\ rets[k].id = rets[k + 1].id
     /\ rets[k].user # NoUser /\ rets[k].user = rets[k + 1].user
     /\ rets[k].owner = rets[k].user
     /\ rets[k].ok /\ rets[k + 1].ok
     /\ rets[k + 1].no = rets[k].no + 1
     /\ rets[k + 1].returned = k)
      => /\ rets[k].result = "true"
         /\ rets[k + 1].result = "false"
         /\ ~rets[k + 1].changed
         /\ ~rets[k + 1].listChanged

\* C8: a reload started by a change notification queries the remote table
\* with the limit and searchQuery of the store's latest render.
C8_ReloadUsesCurrentParams ==
  \A f \in fetches :
    f.origin = "notify" => (f.limit = f.curLimit /\ f.query = f.curQuery)

\* The subscriptions a store has open: one, of the authenticated user, while
\* mounted with a user; none otherwise.
OneSubscription ==
  IF mounted /\ user # NoUser
  THEN Cardinality(channels) = 1 /\ \A c \in channels : c.user = user
  ELSE channels = {}

\* A reload that a removed subscription started leaves the store's state as
\* it is when it completes.
NoWriteAfterRemoval ==
  \A f \in fetches \ fetches' :
    (f.origin = "notify" /\ f.chan \notin ChannelIds(channels))
      => UNCHANGED <<entries, loading, error>>

\* C9: the store has exactly one open subscription while a user is
\* authenticated and none otherwise, and once a subscription is removed no
\* state of the store is written by work that subscription started.
C9_SubscriptionLifecycle ==
  [][OneSubscription' /\ NoWriteAfterRemoval]_vars

\* The store is at rest: no notification undelivered, no call in flight.
Quiescent ==
  /\ fetches = {}
  /\ ops = {}
  /\ \A c \in channels : c.pending = 0

\* C10: after changes by other devices and no caller action, once every
\* notification is delivered and every list query has completed without
\* failure, the in-memory list is the remote list of the current user, limit
\* and searchQuery.
C10_RemoteEditsAppear ==
  (/\ mounted
   /\ user # NoUser
   /\ callerActs = 0
   /\ remoteActs > 0
   /\ ~fetchFailed
   /\ Quiescent)
    => entries = RemoteList(entriesTable, user, limit, searchQuery)

C12_CreateChangesListOnSuccess ==
  [][/\ \A o \in ops' \ ops :
          o.kind = "create" => UNCHANGED <<entries, loading, error>>
     /\ \A o \in ops \ ops' :
          (o.kind = "create" /\ mounted) =>
            /\ UNCHANGED <<loading, error>>
            /\ IF o.ok
               THEN /\ rets'[Len(rets')].result = "entry"
                    /\ rets'[Len(rets')].id = o.row.id
                    /\ o.row.user_id = o.user
                    /\ entries' = <<o.row>> \o entries
               ELSE /\ rets'[Len(rets')].result = "null"
                    /\ entries' = entries]_vars

\* C12 witness: a createEntry call has returned its entry, which is now the
\* first element of a list of two.
C12_Witness ==
  /\ mounted
  /\ Len(entries) = 2
  /\ \E k \in DOMAIN rets :
       /\ rets[k].kind = "create"
       /\ rets[k].result = "entry"
       /\ entries[1].id = rets[k].id
       /\ entries[2].id # rets[k].id

\* A field of the form data that the caller supplied (present, not empty).
Supplied(form, f, empty) == f \in DOMAIN form /\ form[f] # empty

\* The supplied title, entryDate, locationText, weatherSummary and tags of
\* the form are those of the row; tags is a field of the row's content.
FieldsPreserved(row, form) ==
  /\ row.title = form.title
  /\ Supplied(form, "entry_date", NoDate) => row.entry_date = form.entry_date
  /\ Supplied(form, "location_text", <<>>) => row.location_text = form.location_text
  /\ Supplied(form, "weather_summary", <<>>) => row.weather_summary = form.weather_summary
  /\ Supplied(form, "tags", <<>>) => row.tags = form.tags

\* A list query f without search filter is issued by the user whose latest
\* createEntry call has returned its entry, the table being as that call's
\* insert left it.
ListedRightAfterCreate(f) ==
  /\ Trim(f.query) = <<>>
  /\ created # NoCreate
  /\ entriesTable = created.table
  /\ \E r \in entriesTable : r.id = created.id /\ r.user_id = f.user
  /\ \E k \in DOMAIN rets :
       rets[k].kind = "create" /\ rets[k].id = created.id /\ rets[k].result = "entry"

CreatedRow == CHOOSE r \in created.table : r.id = created.id

\* C13: a list query without search filter issued right after a successful
\* createEntry(formData), with no remote change in between, yields a list
\* whose first element is the created entry, with the supplied title,
\* entryDate, locationText, weatherSummary and tags.
C13_RoundTripFirst ==
  [][\A f \in fetches' \ fetches :
       ListedRightAfterCreate(f) =>
         /\ f.data # <<>>
         /\ Head(f.data) = CreatedRow
         /\ FieldsPreserved(Head(f.data), created.form)]_vars

\* C13 as amended: the list is in descending entryDate order and cut at
\* limit; the created entry carries the supplied fields, it is in the list
\* unless limit entries precede it, and it is the first element when its
\* entryDate is later than the entryDate of every other entry of the user.
C13_RoundTripInDateOrder ==
  [][\A f \in fetches' \ fetches :
       ListedRightAfterCreate(f) =>
         /\ FieldsPreserved(CreatedRow, created.form)
         /\ \A i, j \in DOMAIN f.data :
              i < j => f.data[i].entry_date >= f.data[j].entry_date
         /\ \/ \E i \in DOMAIN f.data : f.data[i] = CreatedRow
            \/ /\ Len(f.data) = f.limit
               /\ \A i \in DOMAIN f.data :
                    f.data[i].entry_date >= CreatedRow.entry_date
         /\ (\A r \in entriesTable :
               (r.user_id = f.user /\ r.id # created.id)
                 => r.entry_date < CreatedRow.entry_date)
              => (f.data # <<>> /\ Head(f.data) = CreatedRow)]_vars

\* C13 witness: such a list query is in flight and its first element is the
\* created entry, above an older entry.
C13_Witness ==
  \E f \in fetches :
    /\ ListedRightAfterCreate(f)
    /\ Len(f.data) = 2
    /\ Head(f.data) = CreatedRow
    /\ Supplied(created.form, "tags", <<>>)

\* No call to the remote table, the storage or the subscription service is
\* issued in this step.
NoRemoteCall ==
  /\ fetches' \subseteq fetches
  /\ ops' \subseteq ops
  /\ channels' \subseteq channels
  /\ UNCHANGED <<entriesTable, blobs, media>>
  /\ \A b \in Batches : batch'[b].pc \in {"idle", "done"}
  /\ del'.pc \in {"idle", "done"}
  /\ queried' # queried => queried'.outcome = "none"

\* The calls that return in this step return their failure value.
FailureValues ==
  /\ rets' # rets =>
       /\ Len(rets') = Len(rets) + 1
       /\ rets'[Len(rets')].result =
            (IF rets'[Len(rets')].kind = "delete" THEN "false" ELSE "null")
  /\ queried' # queried => queried'.result = <<>>
  /\ \A b \in Batches :
       batch'[b] # batch[b] => (batch'[b].pc = "done" /\ batch'[b].uploadedMedia = <<>>)
  /\ del' # del => (del'.pc = "done" /\ del'.result = FALSE)

\* C14: with no authenticated user, createEntry, updateEntry, deleteEntry,
\* searchEntries, getEntriesByDate, the loading of the list, uploadFiles and
\* deleteMedia issue no remote call, return their failure value and leave
\* entries, uploading and uploadProgress unchanged.
C14_NoUserNoRemoteWork ==
  [][user' = NoUser =>
       /\ NoRemoteCall
       /\ (user = NoUser /\ fetches' = fetches) =>
            /\ FailureValues
            /\ UNCHANGED <<entries, uploading, uploadProgress>>]_vars

\* C14 witness: after the session ended, with the list still holding an
\* entry, calls of both hooks have returned.
C14_Witness ==
  /\ user = NoUser
  /\ entries # <<>>
  /\ \E k \in DOMAIN rets : rets[k].user = NoUser
  /\ queried # NoQuery
  /\ batch[1].pc = "done"
  /\ del.pc = "done"

\* The ceilings of the four categories of the supported-type table, in MB:
\* images, audio, video, documents.
CeilingMB == <<10, 50, 100, 25>>

\* C15: validateFile(file) returns valid exactly when file.type is a MIME
\* type of the supported-type table and file.size is at most the ceiling of
\* the category holding that type (a size equal to the ceiling is valid);
\* otherwise it returns a reason; it changes no state and issues no remote
\* call.
C15_ValidateFile ==
  [][validated' # validated =>
       LET file == validated'.file
           result == validated'.result
       IN  /\ result.isValid <=>
                \E c \in DOMAIN SUPPORTED_FILE_TYPES :
                  /\ file.type \in SUPPORTED_FILE_TYPES[c].mimeTypes
                  /\ file.size <= CeilingMB[c] * 1024 * 1024
           /\ ~result.isValid => result.error # NoError
           /\ UNCHANGED <<user, storeVars, uploaderVars>>]_vars

\* C15 witness: a video of exactly 100 MB has been found valid.
C15_Witness ==
  /\ validated # NoValidation
  /\ validated.file.type = "video/mp4"
  /\ validated.file.size = 100 * 1024 * 1024
  /\ validated.result.isValid

\* The progress list holds an entry of that file name in a terminal state:
\* complete at 100 without error, respectively complete with an error.
ShowsSuccess(prog, fileName) ==
  \E k \in DOMAIN prog :
    /\ prog[k].fileName = fileName
    /\ prog[k].progress = 100
    /\ prog[k].isComplete
    /\ prog[k].error = NoError

ShowsFailure(prog, fileName) ==
  \E k \in DOMAIN prog :
    /\ prog[k].fileName = fileName
    /\ prog[k].isComplete
    /\ prog[k].error # NoError

\* C16: in the step in which an uploadFiles batch finishes, every file of the
\* batch that is in the returned sequence has a progress entry complete at
\* 100 without error, and every other file of the batch has a progress entry
\* complete with a non-empty error, also when two files have the same name.
C16_ProgressTellsOutcome ==
  [][\A b \in Batches :
       (batch[b].pc # "done" /\ batch'[b].pc = "done" /\ batch'[b].user # NoUser) =>
         \A i \in 1..Len(batch'[b].files) :
           IF Passed(batch'[b].log[i])
           THEN ShowsSuccess(uploadProgress', batch'[b].files[i].name)
           ELSE ShowsFailure(uploadProgress', batch'[b].files[i].name)]_vars

\* The file names batch b has recorded progress entries for.
RecordedNames(b) ==
  { batch[b].files[i].name :
      i \in { j \in 1..Len(batch[b].files) : j <= batch[b].idx } }

\* C17: while a batch is running, and after it finished until its own 3 s
\* timer fires, no step removes a progress entry of one of its files from
\* uploadProgress, whatever other batches of the uploader do.
C17_ProgressKeptThroughWindow ==
  [][\A b \in Batches :
       (/\ batch[b].user # NoUser
        /\ batch[b].pc # "done" \/ b \in timers
        /\ ~(b \in timers /\ b \notin timers')) =>
         \A k \in DOMAIN uploadProgress :
           uploadProgress[k].fileName \in RecordedNames(b) =>
             \E n \in DOMAIN uploadProgress' :
               uploadProgress'[n].fileName = uploadProgress[k].fileName]_vars

\* The calendar day, in the time zone tz, that holds instant t.
LocalDay(t, tz) == (t + tz) \div DayMs

\* C18: in every time zone, a getEntriesByDate(d) call whose query succeeds
\* returns exactly the caller's entries whose entryDate lies between
\* 00:00:00.000 and 23:59:59.999 of the caller's calendar day d, both
\* included, in descending entryDate order.
C18_EntriesOfLocalDay ==
  (queried.kind = "byDate" /\ queried.outcome = "ok") =>
    /\ { queried.result[k] : k \in DOMAIN queried.result } =
         { r \in entriesTable :
             r.user_id = queried.user /\ LocalDay(r.entry_date, queried.tz) = queried.arg }
    /\ \A i, j \in DOMAIN queried.result :
         i < j => queried.result[i].entry_date >= queried.result[j].entry_date

\* C19: deleteMedia(id) returns true only if this call removed the caller's
\* MediaRecord of that id; it returns false when the lookup finds no such row
\* and when the record deletion fails; a failure of the blob deletion does
\* not change the result (the record deletion follows and decides it); the
\* blob deletion is attempted before the record deletion.
C19_DeleteMediaResult ==
  [][/\ (del'.pc = "done" /\ del.pc # "done" /\ del'.result = TRUE) =>
          \E m \in media \ media' : m.id = del.mediaId /\ m.user_id = del.user
     /\ (del.pc = "awaitSelect" /\ del'.pc # "awaitSelect"
          /\ ~\E m \in media : m.id = del.mediaId /\ m.user_id = del.user) =>
          (del'.pc = "done" /\ del'.result = FALSE)
     /\ (del.pc = "awaitDelete" /\ del'.pc = "done" /\ media' = media) =>
          del'.result = FALSE
     /\ (del.pc = "awaitRemove" /\ del'.pc # "awaitRemove") =>
          del'.pc = "awaitDelete"
     /\ del'.pc = "awaitDelete" => del'.removed # "none"]_vars

\* C20: when the compensating blob removal after a failed record insert
\* completes, with whatever outcome, the file is absent from the returned
\* sequence, its progress entry (unless a later file of the same name has
\* taken it over) carries the failure of the record insert, and the batch
\* goes on with its remaining files.
C20_CompensationFailureNotVisible ==
  [][\A b \in Batches :
       (batch[b].pc = "awaitRemove" /\ batch'[b].pc # "awaitRemove") =>
         LET i == batch[b].idx
             name == batch[b].files[i].name
         IN  /\ batch'[b].uploadedMedia = batch[b].uploadedMedia
             /\ ~Passed(batch'[b].log[i])
             /\ (\A j \in (i + 1)..Len(batch[b].files) : batch[b].files[j].name # name)
                  => \E k \in DOMAIN uploadProgress' :
                       /\ uploadProgress'[k].fileName = name
                       /\ uploadProgress'[k].isComplete
                       /\ uploadProgress'[k].error = "Failed to save file record"
             /\ batch'[b].idx > i
             /\ batch'[b].pc \in {"awaitUpload", "done"}
             /\ batch'[b].pc = "done" => batch'[b].idx = Len(batch[b].files) + 1]_vars

\* C21: in every step no two MediaRecords of the media table reference the
\* same storagePath, and a blob write that succeeds writes a path that held
\* no blob, for uploads of the same or of different batches, files of the
\* same name and generated paths that coincide included.
C21_NoSharedStoragePath ==
  [][/\ \A m, n \in media' : m.storage_path = n.storage_path => m = n
     /\ \A b \in Batches :
          (batch[b].pc = "awaitUpload" /\ batch'[b].pc = "awaitInsert")
            => (batch[b].path \notin blobs /\ batch[b].path \in blobs')]_vars

\* C22: when an updateEntry call returns, a successful one (the caller's
\* row matched) returns the row and the list keeps its length and order, the
\* elements of that id being the returned row and every other element
\* unchanged; a failed one (no matching row, error result, raised fault)
\* returns null and leaves the list unchanged.
C22_UpdateReplacesInPlace ==
  [][\A o \in ops \ ops' :
       (o.kind = "update" /\ mounted) =>
         IF o.ok
         THEN /\ o.owner = o.user
              /\ rets'[Len(rets')].result = "entry"
              /\ o.row.id = o.id
              /\ Len(entries') = Len(entries)
              /\ \A k \in DOMAIN entries :
                   entries'[k] = IF entries[k].id = o.id THEN o.row ELSE entries[k]
         ELSE /\ rets'[Len(rets')].result = "null"
              /\ entries' = entries]_vars

\* C22 witness: an updateEntry call has returned its entry, which is the
\* second element of the list, after an element of another id.
C22_Witness ==
  /\ mounted
  /\ Len(entries) = 2
  /\ \E k \in DOMAIN rets :
       /\ rets[k].kind = "update"
       /\ rets[k].result = "entry"
       /\ rets[k].listChanged
       /\ entries[2].id = rets[k].id
       /\ entries[1].id # rets[k].id

\* C23: when a deleteEntry call returns, a successful one returns true and
\* the list is the previous list without the elements of that id, the others
\* in their order; one that the remote table rejected or that raised a fault
\* returns false and leaves the list unchanged.
C23_DeleteRemovesFromList ==
  [][\A o \in ops \ ops' :
       (o.kind = "delete" /\ mounted) =>
         IF o.ok
         THEN /\ rets'[Len(rets')].result = "true"
              /\ \A k \in DOMAIN entries' : entries'[k].id # o.id
              /\ \E keep \in SUBSET DOMAIN entries :
                   /\ keep = { k \in DOMAIN entries : entries[k].id # o.id }
                   /\ Len(entries') = Cardinality(keep)
                   /\ \A n \in DOMAIN entries' :
                        \E k \in keep :
                          /\ Cardinality({ j \in keep : j <= k }) = n
                          /\ entries'[n] = entries[k]
         ELSE /\ rets'[Len(rets')].result = "false"
              /\ entries' = entries]_vars

\* C23 witness: a deleteEntry call has returned true and changed the list,
\* which still holds an entry.
C23_Witness ==
  /\ mounted
  /\ entries # <<>>
  /\ \E k \in DOMAIN rets :
       /\ rets[k].kind = "delete"
       /\ rets[k].result = "true"
       /\ rets[k].listChanged
       /\ \A n \in DOMAIN entries : entries[n].id # rets[k].id

\* The remote calls uploadFiles has issued for file i of batch b: completed
\* ones are in the log, the pending one is the batch's position.
Issued(b, i, call, pc) ==
  \/ batch[b].log[i][call] # "none"
  \/ batch[b].pc = pc /\ batch[b].idx = i

\* C24: in every state, for every file of every batch: a blob write was
\* issued only if the file passes validation, a record insert only if the
\* blob write succeeded, and a compensating blob removal only if the blob
\* write succeeded and the record insert then failed.
C24_StepsGatedInOrder ==
  \A b \in Batches :
    \A i \in DOMAIN batch[b].log :
      /\ Issued(b, i, "upload", "awaitUpload") => validateFile(batch[b].files[i]).isValid
      /\ Issued(b, i, "insert", "awaitInsert") => batch[b].log[i].upload = "ok"
      /\ Issued(b, i, "remove", "awaitRemove") =>
           /\ batch[b].log[i].upload = "ok"
           /\ batch[b].log[i].insert \in {"error", "throw"}

\* C24 witness: a returned batch whose first file failed validation and
\* whose second file went through blob write, failed record insert and
\* compensating removal.
C24_Witness ==
  \E b \in Batches :
    /\ batch[b].pc = "done"
    /\ Len(batch[b].log) = 2
    /\ ~validateFile(batch[b].files[1]).isValid
    /\ batch[b].log[1].upload = "none"
    /\ batch[b].log[2].upload = "ok"
    /\ batch[b].log[2].insert = "error"
    /\ batch[b].log[2].remove # "none"

\* C25: in the editor's save workflow, a step that calls uploadFiles is the
\* step of handleSave after its createEntry or updateEntry call returned an
\* entry, and passes that entry's id; the step of handleSave after the call
\* returned null calls no uploadFiles, and leaves the dialog and the form as
\* they are.
C25_UploadOnlyAfterSave ==
  [][/\ \A b \in Batches :
          (batch[b].pc = "idle" /\ batch'[b].pc # "idle") =>
            /\ editor.pc = "awaitSave"
            /\ \E k \in DOMAIN rets :
                 /\ rets[k].no = editor.op
                 /\ rets[k].kind \in {"create", "update"}
                 /\ rets[k].result = "entry"
                 /\ rets[k].id # NoEntry
                 /\ batch'[b].entryId = rets[k].id
     /\ (/\ editor.pc = "awaitSave"
         /\ editor'.pc # "awaitSave"
         /\ \E k \in DOMAIN rets : rets[k].no = editor.op /\ rets[k].result = "null") =>
          /\ batch' = batch
          /\ editor'.pc = "idle"
          /\ editor'.open = editor.open
          /\ editor'.form = editor.form]_vars

\* C25 witness: a save of the editor has returned null, leaving the dialog
\* open with its form, and a later save has passed the selected file to
\* uploadFiles with the id of the created entry.
C25_Witness ==
  /\ \E k \in DOMAIN rets : rets[k].kind = "create" /\ rets[k].result = "null"
  /\ editor.pc = "awaitUpload"
  /\ editor.open
  /\ editor.form # EmptyForm
  /\ batch[editor.b].pc # "idle"
  /\ \E k \in DOMAIN rets :
       /\ rets[k].kind = "create"
       /\ rets[k].result = "entry"
       /\ batch[editor.b].entryId = rets[k].id

\* C26: in every state the in-memory list holds no two elements of the same
\* id, whatever the order in which a createEntry call returns and a reload
\* started by the insert notification of its entry completes.
C26_NoDuplicateIds ==
  \A i, j \in DOMAIN entries : entries[i].id = entries[j].id => i = j

\* C27: in every state the in-memory list is in descending order of
\* entryDate, whatever entryDate createEntry and updateEntry set.
C27_ListSortedByDate ==
  \A i, j \in DOMAIN entries :
    i < j => entries[i].entry_date >= entries[j].entry_date

\* An entry matches the search query in its title or its content text.
Matches(e, q) == ilike(e.title, q) \/ ilike(e.text, q)

\* C28: in every state in which no call of the store is in flight, the
\* in-memory list holds at most limit elements and, when searchQuery is not
\* empty, only elements that match it in title or content text.
C28_ListWithinLimitAndQuery ==
  (mounted /\ user # NoUser /\ fetches = {} /\ ops = {}) =>
    /\ Len(entries) <= limit
    /\ Trim(searchQuery) # <<>> =>
         \A k \in DOMAIN entries : Matches(entries[k], searchQuery)

\* The list queries issued after query f that have completed.
CompletedAfter(f) ==
  { n \in (f.id + 1)..(nextFetchId - 1) : \A g \in fetches : g.id # n }

\* C29: when the response of a list query arrives after the response of a
\* list query issued later was written to the in-memory list (no list query
\* having failed), it does not replace the list.
C29_StaleResponseDropped ==
  [][\A f \in fetches \ fetches' :
       (mounted /\ failedFetches' = 0 /\ CompletedAfter(f) # {})
         => entries' = entries]_vars

\* A batch of an authenticated user that has started and not returned.
Running(b) == batch[b].pc \in {"awaitUpload", "awaitInsert", "awaitRemove"}

\* C30: in every state uploading is true if a batch of the uploader is
\* running and false if none is, overlapping uploadFiles calls included.
C30_UploadingWhileRunning ==
  uploading <=> \E b \in Batches : Running(b)

====
